---------------------------- MODULE Spec2Model ----------------------------
(***************************************************************************)
(* Model of file/pathlib/get_folder_size.py: the ByteSize value type (an   *)
(* int subclass with derived unit attributes, a readable pair, formatting  *)
(* and arithmetic that re-wraps its result) and get_folder_size, which     *)
(* sums st_size over Path(folder).rglob('*').                              *)
(*                                                                         *)
(* Python integers are unbounded, so an integer is a sign and a magnitude  *)
(* held as little-endian digits in base _kB = 1024.  A float is the        *)
(* rational (-1)^neg * mag / 1024^exp in lowest terms of the base, with    *)
(* mag rounded to the 53-bit mantissa of an IEEE double.                   *)
(***************************************************************************)
EXTENDS Integers, Sequences, FiniteSets, TLC

VARIABLES a, b, res, op, out, steps, underflowed, fs

vars == <<a, b, res, op, out, steps, underflowed, fs>>

(***************************************************************************)
(* Bounds of the model.                                                    *)
(***************************************************************************)
MaxExp == 5        \* constructor inputs lie around 1024^k for k <= MaxExp
MaxPrec == 3       \* format precisions 0..MaxPrec
MaxSteps == 2      \* rebindings a = <result> in a chain of operations
MaxNodes == 4      \* entries below the root of a directory tree

(***************************************************************************)
(* Program and platform constants.                                         *)
(***************************************************************************)
_kB == 1024
MantBits == 53

(***************************************************************************)
(* Magnitudes: little-endian sequences of digits in 0.._kB-1, without      *)
(* leading (high) zero digits; <<>> is zero.                               *)
(***************************************************************************)
RECURSIVE Norm(_)
Norm(m) ==
    IF Len(m) = 0 THEN m
    ELSE IF m[Len(m)] = 0 THEN Norm(SubSeq(m, 1, Len(m) - 1)) ELSE m

Digit(m, i) == IF i >= 1 /\ i <= Len(m) THEN m[i] ELSE 0

RECURSIVE FromNat(_)
FromNat(n) == IF n = 0 THEN <<>> ELSE <<n % _kB>> \o FromNat(n \div _kB)

Zeros(k) == [i \in 1..k |-> 0]

Shift(m, k) == IF Len(m) = 0 THEN m ELSE Zeros(k) \o m

\* -1, 0, 1 as x < y, x = y, x > y
RECURSIVE MagCmpAt(_, _, _)
MagCmpAt(x, y, i) ==
    IF i = 0 THEN 0
    ELSE IF Digit(x, i) < Digit(y, i) THEN -1
    ELSE IF Digit(x, i) > Digit(y, i) THEN 1
    ELSE MagCmpAt(x, y, i - 1)

MagCmp(x, y) ==
    IF Len(x) < Len(y) THEN -1
    ELSE IF Len(x) > Len(y) THEN 1
    ELSE MagCmpAt(x, y, Len(x))

RECURSIVE MagAddAt(_, _, _, _)
MagAddAt(x, y, i, carry) ==
    IF i > Len(x) /\ i > Len(y)
    THEN (IF carry = 0 THEN <<>> ELSE <<carry>>)
    ELSE LET s == Digit(x, i) + Digit(y, i) + carry
         IN  <<s % _kB>> \o MagAddAt(x, y, i + 1, s \div _kB)

MagAdd(x, y) == Norm(MagAddAt(x, y, 1, 0))

\* x - y for x >= y
RECURSIVE MagSubAt(_, _, _, _)
MagSubAt(x, y, i, borrow) ==
    IF i > Len(x) THEN <<>>
    ELSE LET d == Digit(x, i) - Digit(y, i) - borrow
         IN  IF d < 0 THEN <<d + _kB>> \o MagSubAt(x, y, i + 1, 1)
             ELSE <<d>> \o MagSubAt(x, y, i + 1, 0)

MagSub(x, y) == Norm(MagSubAt(x, y, 1, 0))

\* x * s for a small natural s
RECURSIVE MagMulSmallAt(_, _, _, _)
MagMulSmallAt(x, s, i, carry) ==
    IF i > Len(x) THEN FromNat(carry)
    ELSE LET p == x[i] * s + carry
         IN  <<p % _kB>> \o MagMulSmallAt(x, s, i + 1, p \div _kB)

MagMulSmall(x, s) == Norm(MagMulSmallAt(x, s, 1, 0))

RECURSIVE MagMulAt(_, _, _)
MagMulAt(x, y, i) ==
    IF i > Len(y) THEN <<>>
    ELSE MagAdd(Shift(MagMulSmall(x, y[i]), i - 1), MagMulAt(x, y, i + 1))

MagMul(x, y) == MagMulAt(x, y, 1)

\* <<quotient, remainder>> of x by a small positive s, from the high digit down
RECURSIVE MagDivSmallAt(_, _, _, _)
MagDivSmallAt(x, s, i, rem) ==
    IF i = 0 THEN <<(<<>>), rem>>
    ELSE LET cur == rem * _kB + x[i]
             rest == MagDivSmallAt(x, s, i - 1, cur % s)
         IN  <<rest[1] \o <<cur \div s>>, rest[2]>>

MagDivSmall(x, s) ==
    LET qr == MagDivSmallAt(x, s, Len(x), 0) IN <<Norm(qr[1]), qr[2]>>


(***************************************************************************)
(* Numbers.  An int is [neg, mag, exp |-> 0]; a float is [neg, mag, exp]   *)
(* with value (-1)^neg * mag / _kB^exp, mag not divisible by _kB unless    *)
(* exp = 0, so that equal values are equal records.                        *)
(***************************************************************************)
MkInt(neg, mag) == [neg |-> neg /\ Len(mag) > 0, mag |-> mag, exp |-> 0]

IntOf(n) == IF n < 0 THEN MkInt(TRUE, FromNat(-n)) ELSE MkInt(FALSE, FromNat(n))

IntNeg(x) == MkInt(~x.neg, x.mag)

\* int.__add__
IntAdd(x, y) ==
    IF x.neg = y.neg THEN MkInt(x.neg, MagAdd(x.mag, y.mag))
    ELSE IF MagCmp(x.mag, y.mag) >= 0 THEN MkInt(x.neg, MagSub(x.mag, y.mag))
    ELSE MkInt(y.neg, MagSub(y.mag, x.mag))

\* int.__sub__
IntSub(x, y) == IntAdd(x, IntNeg(y))

\* int.__mul__
IntMul(x, y) == MkInt(x.neg # y.neg, MagMul(x.mag, y.mag))

\* _kB**k
KBPow(k) == MkInt(FALSE, Shift(<<1>>, k))

RECURSIVE BitLen(_)
BitLen(v) == IF v = 0 THEN 0 ELSE 1 + BitLen(v \div 2)

MagBits(m) == IF Len(m) = 0 THEN 0 ELSE 10 * (Len(m) - 1) + BitLen(m[Len(m)])

\* The magnitude rounded to MantBits significant bits, ties to even: what
\* the conversion of an int to an IEEE double keeps of it.
Round53(m) ==
    LET d == MagBits(m) - MantBits
    IN  IF d <= 0 THEN m
        ELSE LET q == d \div 10
                 r == d % 10
                 cut == m[q + 1]
                 low == cut % (2 ^ r)
                 hb == IF r > 0 THEN low \div (2 ^ (r - 1)) ELSE m[q] \div 512
                 sticky ==
                     IF r > 0
                     THEN low % (2 ^ (r - 1)) # 0 \/ \E i \in 1..q : m[i] # 0
                     ELSE m[q] % 512 # 0 \/ \E i \in 1..(q - 1) : m[i] # 0
                 lsb == (cut \div (2 ^ r)) % 2
                 trunc == [i \in 1..Len(m) |->
                              IF i <= q THEN 0
                              ELSE IF i = q + 1 THEN cut - low ELSE m[i]]
             IN  IF hb = 1 /\ (sticky \/ lsb = 1)
                 THEN MagAdd(trunc, Shift(<<2 ^ r>>, q))
                 ELSE trunc

RECURSIVE Reduce(_, _, _)
Reduce(neg, mag, exp) ==
    IF Len(mag) = 0 THEN [neg |-> neg, mag |-> mag, exp |-> 0]
    ELSE IF exp > 0 /\ mag[1] = 0 THEN Reduce(neg, Tail(mag), exp - 1)
    ELSE [neg |-> neg, mag |-> mag, exp |-> exp]

\* float(x): x rounded to a double
ToFloat(x) == Reduce(x.neg, Round53(x.mag), x.exp)

\* Variant: floor division, self // _kB**k
TrueDivFloor(x, k) ==
    MkInt(x.neg, IF Len(x.mag) > k THEN SubSeq(x.mag, k + 1, Len(x.mag)) ELSE <<>>)

\* int.__truediv__(x, _kB**k): the correctly rounded quotient; dividing by a
\* power of two only moves the exponent.
TrueDiv(x, k) == Reduce(x.neg, Round53(x.mag), k)

\* -1, 0, 1 as x < y, x = y, x > y, for any two numbers
NumCmp(x, y) ==
    LET xm == Shift(x.mag, y.exp)
        ym == Shift(y.mag, x.exp)
    IN  IF x.neg /\ ~y.neg THEN -1
        ELSE IF ~x.neg /\ y.neg THEN 1
        ELSE IF x.neg THEN MagCmp(ym, xm)
        ELSE MagCmp(xm, ym)

NumLe(x, y) == NumCmp(x, y) <= 0

NumLt(x, y) == NumCmp(x, y) < 0

(***************************************************************************)
(* class ByteSize(int)                                                     *)
(***************************************************************************)
_suffixes == <<"B", "kB", "MB", "GB", "PB">>

\* Variants of the condition: the lower bound strict, and zero let in
QualifiesStrict(v) == NumLt(IntOf(1), v) /\ NumLt(v, IntOf(_kB))

QualifiesZero(v) == NumLe(IntOf(0), v) /\ NumLt(v, IntOf(_kB))

\* Variant: the upper bound of the condition inclusive
QualifiesUpToKB(v) == NumLe(IntOf(1), v) /\ NumLe(v, IntOf(_kB))

\* The condition of the generator in __init__: 1 <= getattr(self, suffix) < _kB
Qualifies(v) == NumLe(IntOf(1), v) /\ NumLt(v, IntOf(_kB))

\* next((suffix for suffix in suffixes if ...), last)
RECURSIVE NextSuffix(_, _, _, _)
NextSuffix(obj, suffixes, i, last) ==
    IF i > Len(suffixes) THEN last
    ELSE IF Qualifies(obj[suffixes[i]]) THEN suffixes[i]
    ELSE NextSuffix(obj, suffixes, i + 1, last)

\* ByteSize.__init__ up to the derived attributes
UnitAttrs(n) ==
    [B |-> n, kB |-> TrueDiv(n, 1), MB |-> TrueDiv(n, 2),
     GB |-> TrueDiv(n, 3), PB |-> TrueDiv(n, 4)]

\* ByteSize.__init__: the readable pair
Readable(n) ==
    LET attrs == UnitAttrs(n)
        suffixes == SubSeq(_suffixes, 1, Len(_suffixes) - 1)
        last == _suffixes[Len(_suffixes)]
        suffix == NextSuffix(attrs, suffixes, 1, last)
    IN  <<suffix, attrs[suffix]>>

\* ByteSize(n): __new__ and __init__
ByteSize(n) ==
    LET u == UnitAttrs(n)
    IN  [cls |-> "ByteSize", int |-> n,
         bytes |-> u.B, B |-> u.B,
         kilobytes |-> u.kB, kB |-> u.kB,
         megabytes |-> u.MB, MB |-> u.MB,
         gigabytes |-> u.GB, GB |-> u.GB,
         petabytes |-> u.PB, PB |-> u.PB,
         readable |-> Readable(n)]

\* A plain int value
PyInt(n) == [cls |-> "int", int |-> n]

None == [cls |-> "NoneType"]

\* str.format of a float with format_spec '.<p>f': the decimal digits of the
\* value rounded to p places, ties to even on the exact binary value.
DigitChar(d) ==
    CASE d = 0 -> "0" [] d = 1 -> "1" [] d = 2 -> "2" [] d = 3 -> "3"
      [] d = 4 -> "4" [] d = 5 -> "5" [] d = 6 -> "6" [] d = 7 -> "7"
      [] d = 8 -> "8" [] d = 9 -> "9"

RECURSIVE DecDigits(_)
DecDigits(m) ==
    IF Len(m) = 0 THEN <<>>
    ELSE LET qr == MagDivSmall(m, 10) IN DecDigits(qr[1]) \o <<qr[2]>>

RECURSIVE Chars(_)
Chars(ds) == IF Len(ds) = 0 THEN "" ELSE DigitChar(Head(ds)) \o Chars(Tail(ds))

PadLeft(ds, n) == IF Len(ds) >= n THEN ds ELSE Zeros(n - Len(ds)) \o ds

\* Variant: the decimals beyond p cut off instead of rounded
RoundDecTrunc(v, p) ==
    LET scaled == MagMulSmall(v.mag, 10 ^ p)
    IN  IF Len(scaled) > v.exp THEN SubSeq(scaled, v.exp + 1, Len(scaled)) ELSE <<>>

\* round(|v| * 10^p) to an integer magnitude, ties to even on the exact value
RoundDec(v, p) ==
    LET scaled == MagMulSmall(v.mag, 10 ^ p)
        e == v.exp
        quo == IF Len(scaled) > e THEN SubSeq(scaled, e + 1, Len(scaled)) ELSE <<>>
        top == Digit(scaled, e)
        below == \E i \in 1..(e - 1) : Digit(scaled, i) # 0
        half == IF e = 0 \/ top < 512 THEN -1
                ELSE IF top = 512 /\ ~below THEN 0 ELSE 1
    IN  IF half = 1 \/ (half = 0 /\ Digit(quo, 1) % 2 = 1)
        THEN MagAdd(quo, <<1>>) ELSE quo

\* The sign, the integer digits and, for p > 0, a point and p decimals
Render(neg, rounded, p) ==
    LET ds == PadLeft(DecDigits(rounded), p + 1)
    IN  (IF neg THEN "-" ELSE "")
            \o Chars(SubSeq(ds, 1, Len(ds) - p))
            \o (IF p > 0 THEN "." \o Chars(SubSeq(ds, Len(ds) - p + 1, Len(ds))) ELSE "")

FormatFixed(v, p) ==
    LET val == ToFloat(v) IN Render(val.neg, RoundDec(val, p), p)

\* ByteSize.__format__ with format_spec '.<p>f'
__format__(self, p) ==
    LET suffix == self.readable[1]
        val == self.readable[2]
    IN  FormatFixed(val, p) \o " " \o suffix

\* ByteSize.__str__
__str__(self) == __format__(self, 2)

\* Variants of the overrides: a difference clamped at zero, a difference
\* taken the other way round, a sum computed by the subtraction, and a
\* product returned as the plain int super().__mul__ gives
SubClamped(self, other) ==
    IF NumLt(self.int, other.int) THEN ByteSize(IntOf(0))
    ELSE ByteSize(IntSub(self.int, other.int))

SubSwapped(self, other) == ByteSize(IntSub(other.int, self.int))

AddAsSub(self, other) == ByteSize(IntSub(self.int, other.int))

MulUnwrapped(self, other) == PyInt(IntMul(self.int, other.int))

\* The arithmetic overrides: the int result wrapped by self.__class__
__sub__(self, other) == ByteSize(IntSub(self.int, other.int))

__add__(self, other) == ByteSize(IntAdd(self.int, other.int))

__mul__(self, other) == ByteSize(IntMul(self.int, other.int))

__rsub__(self, other) == ByteSize(IntSub(self.int, other.int))

__radd__(self, other) == ByteSize(IntAdd(self.int, other.int))

\* int.__rmul__(self, other) is other * self
__rmul__(self, other) == ByteSize(IntMul(other.int, self.int))

(***************************************************************************)
(* The directory tree get_folder_size walks.  Entry i of fs is a file or a *)
(* directory with the st_size its stat reports and the entry (0: the root  *)
(* directory) that holds it.  A folder is the root 0, an entry, or Missing,*)
(* a path that does not exist.                                             *)
(***************************************************************************)
Missing == -1

FileSizes == {10, 20, 30}

DirSizes == {0, 4096}

\* Path.is_dir()
IsDir(tree, folder) ==
    folder = 0 \/ (folder \in 1..Len(tree) /\ tree[folder].isdir)

Children(tree, folder) == {i \in 1..Len(tree) : tree[i].parent = folder}

\* Path(folder).rglob('*'): every entry below folder, directories included;
\* nothing when folder is not a directory.
RECURSIVE Walk(_, _)
Walk(tree, folder) ==
    Children(tree, folder)
        \cup UNION {Walk(tree, c) : c \in {i \in Children(tree, folder) : tree[i].isdir}}

rglob(tree, folder) == IF IsDir(tree, folder) THEN Walk(tree, folder) ELSE {}

\* sum(file.stat().st_size for file in ...)
RECURSIVE SumSizes(_, _)
SumSizes(tree, entries) ==
    IF entries = {} THEN IntOf(0)
    ELSE LET e == CHOOSE x \in entries : TRUE
         IN  IntAdd(IntOf(tree[e].st_size), SumSizes(tree, entries \ {e}))

get_folder_size(tree, folder) == ByteSize(SumSizes(tree, rglob(tree, folder)))

(***************************************************************************)
(* Inputs.                                                                 *)
(***************************************************************************)
NearPow(k) ==
    {IntSub(KBPow(k), IntOf(1)), KBPow(k), IntAdd(KBPow(k), IntOf(1))}

\* 2^53 + 1 and 2^53 + 3: the smallest ints a double cannot hold
BeyondMantissa == {MkInt(FALSE, <<1, 0, 0, 0, 0, 8>>), MkInt(FALSE, <<3, 0, 0, 0, 0, 8>>)}

NonNegInputs ==
    UNION {NearPow(k) : k \in 0..MaxExp}
        \cup {IntOf(1152), IntOf(1536), IntOf(5000000)} \cup BeyondMantissa

NegInputs == {IntOf(-1), IntOf(-5000000)}

Inputs == NonNegInputs \cup NegInputs

NonNegInts == {IntOf(0), IntOf(2), IntOf(1024)}

Ints == NonNegInts \cup {IntOf(-1)}

SmallInputs == {IntOf(0), IntOf(1), IntOf(1024)}

SmallInts == {IntOf(0), IntOf(2)}

Nil == IntOf(0)

\* ByteSize(n) for every input, evaluated once
Constructed == [n \in Inputs \cup SmallInputs |-> ByteSize(n)]

(***************************************************************************)
(* State: a and b are the operands a statement names, res its result, op   *)
(* the statement last executed, out the string last rendered, fs the       *)
(* directory tree.  steps counts the rebindings of a; underflowed records  *)
(* that some subtraction had a right operand greater than its left one.    *)
(***************************************************************************)
Init ==
    /\ a = None
    /\ b = None
    /\ res = None
    /\ op = [name |-> "init", arg |-> Nil]
    /\ out = ""
    /\ steps = 0
    /\ underflowed = FALSE
    /\ fs = <<>>

\* a = ByteSize(n)
NewA(n) ==
    /\ a' = Constructed[n]
    /\ op' = [name |-> "new", arg |-> n]
    /\ res' = None
    /\ out' = ""
    /\ UNCHANGED <<b, steps, underflowed, fs>>

\* b = ByteSize(n)
NewB(n) ==
    /\ b' = Constructed[n]
    /\ op' = [name |-> "newb", arg |-> n]
    /\ res' = None
    /\ out' = ""
    /\ UNCHANGED <<a, steps, underflowed, fs>>

\* b = m, a plain int
IntB(m) ==
    /\ b' = PyInt(m)
    /\ op' = [name |-> "int", arg |-> m]
    /\ res' = None
    /\ out' = ""
    /\ UNCHANGED <<a, steps, underflowed, fs>>

Operands == a.cls = "ByteSize" /\ b.cls \in {"ByteSize", "int"}

\* A plain int on the left and a ByteSize on the right: Python calls the
\* reflected method of the right operand.
Reflected == a.cls = "ByteSize" /\ b.cls = "int"

\* Variant: the sum stored into the left operand, as an in-place a += b
AddInPlace ==
    /\ Operands
    /\ a' = __add__(a, b)
    /\ res' = a'
    /\ op' = [name |-> "add", arg |-> Nil]
    /\ out' = ""
    /\ UNCHANGED <<b, steps, underflowed, fs>>

\* res = a + b
Add ==
    /\ Operands
    /\ res' = __add__(a, b)
    /\ op' = [name |-> "add", arg |-> Nil]
    /\ out' = ""
    /\ UNCHANGED <<a, b, steps, underflowed, fs>>

\* res = a - b
Sub ==
    /\ Operands
    /\ res' = __sub__(a, b)
    /\ op' = [name |-> "sub", arg |-> Nil]
    /\ out' = ""
    /\ underflowed' = (underflowed \/ NumLt(a.int, b.int))
    /\ UNCHANGED <<a, b, steps, fs>>

\* res = a * b
Mul ==
    /\ Operands
    /\ res' = __mul__(a, b)
    /\ op' = [name |-> "mul", arg |-> Nil]
    /\ out' = ""
    /\ UNCHANGED <<a, b, steps, underflowed, fs>>

\* res = b + a, b a plain int
RAdd ==
    /\ Reflected
    /\ res' = __radd__(a, b)
    /\ op' = [name |-> "radd", arg |-> Nil]
    /\ out' = ""
    /\ UNCHANGED <<a, b, steps, underflowed, fs>>

\* res = b - a, b a plain int
RSub ==
    /\ Reflected
    /\ res' = __rsub__(a, b)
    /\ op' = [name |-> "rsub", arg |-> Nil]
    /\ out' = ""
    /\ underflowed' = (underflowed \/ NumLt(a.int, b.int))
    /\ UNCHANGED <<a, b, steps, fs>>

\* res = b * a, b a plain int
RMul ==
    /\ Reflected
    /\ res' = __rmul__(a, b)
    /\ op' = [name |-> "rmul", arg |-> Nil]
    /\ out' = ""
    /\ UNCHANGED <<a, b, steps, underflowed, fs>>

\* out = format(a, '.<p>f')
Format(p) ==
    /\ a.cls = "ByteSize"
    /\ out' = __format__(a, p)
    /\ op' = [name |-> "format", arg |-> IntOf(p)]
    /\ res' = None
    /\ UNCHANGED <<a, b, steps, underflowed, fs>>

\* out = str(a)
Str ==
    /\ a.cls = "ByteSize"
    /\ out' = __str__(a)
    /\ op' = [name |-> "str", arg |-> Nil]
    /\ res' = None
    /\ UNCHANGED <<a, b, steps, underflowed, fs>>

\* a = res: the result of one operation is the operand of the next
Rebind ==
    /\ res.cls = "ByteSize"
    /\ steps < MaxSteps
    /\ a' = res
    /\ steps' = steps + 1
    /\ op' = [name |-> "rebind", arg |-> Nil]
    /\ res' = None
    /\ out' = ""
    /\ UNCHANGED <<b, underflowed, fs>>

\* The file system gains an entry, before the program runs.
Create(parent, isdir, size) ==
    /\ op.name \in {"init", "create"}
    /\ Len(fs) < MaxNodes
    /\ IsDir(fs, parent)
    /\ fs' = Append(fs, [parent |-> parent, isdir |-> isdir, st_size |-> size])
    /\ op' = [name |-> "create", arg |-> Nil]
    /\ UNCHANGED <<a, b, res, out, steps, underflowed>>

\* size = get_folder_size(folder)
GetFolderSize(folder) ==
    /\ res' = get_folder_size(fs, folder)
    /\ op' = [name |-> "get_folder_size", arg |-> IntOf(folder)]
    /\ out' = ""
    /\ UNCHANGED <<a, b, steps, underflowed, fs>>

\* print(size, path)
PrintSize ==
    /\ op.name = "get_folder_size"
    /\ out' = __str__(res)
    /\ op' = [name |-> "print", arg |-> op.arg]
    /\ UNCHANGED <<a, b, res, steps, underflowed, fs>>

\* Single operations on freshly constructed operands.
Next ==
    \/ \E n \in Inputs : NewA(n)
    \/ \E n \in Inputs : NewB(n)
    \/ \E m \in Ints : IntB(m)
    \/ Add
    \/ Sub
    \/ Mul
    \/ RAdd
    \/ RSub
    \/ RMul
    \/ \E p \in 0..MaxPrec : Format(p)
    \/ Str

Spec == Init /\ [][Next]_vars

\* Chains of construction from a non-negative integer, addition, subtraction
\* and multiplication by a non-negative integer.
NextSeq ==
    \/ \E n \in SmallInputs : NewA(n)
    \/ \E n \in SmallInputs : NewB(n)
    \/ \E m \in SmallInts : IntB(m)
    \/ Add
    \/ Sub
    \/ b.cls = "int" /\ Mul
    \/ RAdd
    \/ RMul
    \/ Rebind

SpecSeq == Init /\ [][NextSeq]_vars

\* get_folder_size over every directory tree of at most MaxNodes entries.
NextFS ==
    \/ \E parent \in 0..MaxNodes, size \in FileSizes : Create(parent, FALSE, size)
    \/ \E parent \in 0..MaxNodes, size \in DirSizes : Create(parent, TRUE, size)
    \/ \E folder \in Missing..MaxNodes : GetFolderSize(folder)
    \/ PrintSize

SpecFS == Init /\ [][NextFS]_vars

(***************************************************************************)
(* Properties.                                                             *)
(***************************************************************************)
IsByteSize(o) == o.cls = "ByteSize"

\* n / 1024^k as an exact rational, nothing rounded
ExactQuot(n, k) == Reduce(n.neg, n.mag, k)

\* The small units, by position in _suffixes: B, kB, MB, GB
SmallUnits == 1..(Len(_suffixes) - 1)

\* 1 <= n < 1024^4: n is positive and has at most four digits in base 1024
InSmallUnitRange(n) == ~n.neg /\ Len(n.mag) \in SmallUnits

\* C1: for 1 <= n < 1024^4 exactly one of B, kB, MB, GB has its attribute of
\* ByteSize(n) in [1, 1024); it is the unit k with 1024^k <= n < 1024^(k+1),
\* and readable is that unit with n / 1024^k.  ByteSize(1023).readable is
\* ("B", 1023) and ByteSize(1024).readable is ("kB", 1.0).
C1_ReadableUnit ==
    (op.name = "new" /\ InSmallUnitRange(op.arg)) =>
        LET n == op.arg
            k == Len(n.mag) - 1
        IN  /\ {i \in SmallUnits : Qualifies(a[_suffixes[i]])} = {k + 1}
            /\ a.readable = <<_suffixes[k + 1], ExactQuot(n, k)>>
            /\ (n = IntOf(1023) => a.readable = <<"B", IntOf(1023)>>)
            /\ (n = IntOf(1024) => a.readable = <<"kB", IntOf(1)>>)

C1_Witness ==
    /\ op.name = "new"
    /\ op.arg = IntOf(1024)
    /\ a.readable = <<"kB", IntOf(1)>>

\* C2: ByteSize(0) is not special-cased: none of B, kB, MB, GB qualifies,
\* readable is ("PB", 0) and str() renders "0.00 PB".
C2_ZeroIsPB ==
    (IsByteSize(a) /\ a.int = IntOf(0)) =>
        /\ \A i \in SmallUnits : ~Qualifies(a[_suffixes[i]])
        /\ a.readable = <<"PB", IntOf(0)>>
        /\ (op.name = "str" => out = "0.00 PB")

C2_Witness ==
    /\ op.name = "str"
    /\ IsByteSize(a)
    /\ a.int = IntOf(0)
    /\ out = "0.00 PB"

\* The folder a get_folder_size statement was given
FolderOf(arg) == CHOOSE f \in Missing..MaxNodes : IntOf(f) = arg

Exists(tree, folder) == folder = 0 \/ folder \in 1..Len(tree)

\* Entry e lies below folder: its chain of parents reaches folder
RECURSIVE IsBelow(_, _, _)
IsBelow(tree, e, folder) ==
    \/ tree[e].parent = folder
    \/ tree[e].parent # 0 /\ IsBelow(tree, tree[e].parent, folder)

RegularFilesBelow(tree, folder) ==
    {e \in 1..Len(tree) : ~tree[e].isdir /\ IsBelow(tree, e, folder)}

RECURSIVE TotalSize(_, _)
TotalSize(tree, entries) ==
    IF entries = {} THEN 0
    ELSE LET e == CHOOSE x \in entries : TRUE
         IN  tree[e].st_size + TotalSize(tree, entries \ {e})

\* C3: get_folder_size(root) of a directory is a ByteSize whose bytes is the
\* sum of the sizes of the regular files below root; directories contribute
\* 0 whatever size their own stat reports.
C3_SumOfRegularFiles ==
    (op.name = "get_folder_size" /\ IsDir(fs, FolderOf(op.arg))) =>
        /\ IsByteSize(res)
        /\ res.bytes = IntOf(TotalSize(fs, RegularFilesBelow(fs, FolderOf(op.arg))))

\* C4: get_folder_size of a root path that does not exist fails; it returns
\* no ByteSize.
C4_MissingRootFails ==
    (op.name = "get_folder_size" /\ ~Exists(fs, FolderOf(op.arg))) =>
        ~IsByteSize(res)

\* The value of a number of at most three digits, as a TLA+ integer
Value(x) ==
    LET v == Digit(x.mag, 1) + Digit(x.mag, 2) * 1024 + Digit(x.mag, 3) * 1024 * 1024
    IN  IF x.neg THEN 0 - v ELSE v

\* At most two digits: sums and differences of two such values, and their
\* products by a one-digit value, have at most three
Small(x) == Len(x.mag) <= 2

NonNeg(x) == ~x.neg

\* C5: for non-negative a and b, ByteSize(a) + ByteSize(b) is a ByteSize with
\* bytes a + b; the sum is the same with the operands exchanged; the
\* reflected form m + x has the bytes of the forward form x + m; adding
\* ByteSize(0) leaves bytes as they were.
C5_Addition ==
    /\ (op.name = "add" /\ IsByteSize(b) /\ NonNeg(a.int) /\ NonNeg(b.int)) =>
           /\ IsByteSize(res)
           /\ res.bytes = IntAdd(a.bytes, b.bytes)
           /\ (Small(a.int) /\ Small(b.int) =>
                   Value(res.bytes) = Value(a.bytes) + Value(b.bytes))
           /\ res.bytes = __add__(b, a).bytes
           /\ (b.bytes = IntOf(0) => res.bytes = a.bytes)
    /\ (op.name = "radd" /\ NonNeg(a.int) /\ NonNeg(b.int)) =>
           /\ IsByteSize(res)
           /\ res.bytes = __add__(a, b).bytes
           /\ (Small(a.int) /\ Small(b.int) =>
                   Value(res.bytes) = Value(b.int) + Value(a.bytes))

C5_Witness ==
    /\ op.name = "add"
    /\ IsByteSize(b)
    /\ a.bytes = IntOf(1023)
    /\ b.bytes = IntOf(1)
    /\ res.bytes = IntOf(1024)

Objects == {o \in {a, b, res} : IsByteSize(o)}

C7_SubtractionUnclamped ==
    /\ (op.name = "sub" /\ IsByteSize(b)) =>
           /\ IsByteSize(res)
           /\ res.bytes = IntSub(a.bytes, b.bytes)
           /\ (Small(a.int) /\ Small(b.int) =>
                   Value(res.bytes) = Value(a.bytes) - Value(b.bytes))
           /\ (NumLt(a.bytes, b.bytes) => res.bytes.neg)
    /\ (op.name = "new" /\ op.arg.neg) =>
           /\ IsByteSize(a)
           /\ a.int = op.arg
           /\ a.bytes = op.arg

C7_Witness ==
    /\ op.name = "sub"
    /\ a.bytes = IntOf(1)
    /\ IsByteSize(b)
    /\ b.bytes = IntOf(1024)
    /\ res.bytes = IntOf(-1023)

\* 2^d as a magnitude
Pow2Mag(d) == Shift(<<2 ^ (d % 10)>>, d \div 10)

MagDiff(x, y) == IF MagCmp(x, y) >= 0 THEN MagSub(x, y) ELSE MagSub(y, x)

\* v is n / 1024^k as a double holds it: exactly when n has at most MantBits
\* bits, and otherwise a multiple of the last mantissa place no further from
\* it than half that place.
NearestDouble(v, n, k) ==
    LET d == MagBits(n.mag) - MantBits
        whole == Shift(v.mag, k - v.exp)
    IN  /\ v.neg = n.neg
        /\ v.exp <= k
        /\ IF d <= 0 THEN whole = n.mag
           ELSE /\ MagCmp(MagMulSmall(MagDiff(whole, n.mag), 2), Pow2Mag(d)) <= 0
                /\ \A i \in 1..(d \div 10) : whole[i] = 0
                /\ whole[d \div 10 + 1] % (2 ^ (d % 10)) = 0

ExpectedUnit(n) == IF InSmallUnitRange(n) THEN _suffixes[Len(n.mag)] ELSE "PB"

\* Every derived attribute of o follows from o's own bytes
DerivedFromBytes(o) ==
    /\ o.bytes = o.int
    /\ o.B = o.bytes
    /\ o.kB = o.kilobytes /\ NearestDouble(o.kilobytes, o.bytes, 1)
    /\ o.MB = o.megabytes /\ NearestDouble(o.megabytes, o.bytes, 2)
    /\ o.GB = o.gigabytes /\ NearestDouble(o.gigabytes, o.bytes, 3)
    /\ o.PB = o.petabytes /\ NearestDouble(o.petabytes, o.bytes, 4)
    /\ o.readable = <<ExpectedUnit(o.bytes), o[ExpectedUnit(o.bytes)]>>

\* C8: for a ByteSize x and a plain int m, each of x + m, x - m, x * m, m + x
\* and m * x is a ByteSize whose units and readable pair follow from its own
\* bytes; the bytes of x * m and of m * x are x.bytes * m.
C8_ClosedUnderArithmetic ==
    (op.name \in {"add", "sub", "mul", "radd", "rmul"} /\ b.cls = "int") =>
        /\ IsByteSize(res)
        /\ DerivedFromBytes(res)
        /\ (op.name \in {"mul", "rmul"} =>
               /\ res.bytes = IntMul(a.bytes, b.int)
               /\ (Small(a.int) /\ Len(b.int.mag) <= 1 =>
                       Value(res.bytes) = Value(a.bytes) * Value(b.int)))

C8_Witness ==
    /\ op.name = "rmul"
    /\ a.bytes = IntOf(1023)
    /\ b = PyInt(IntOf(2))
    /\ IsByteSize(res)
    /\ res.bytes = IntOf(2046)
    /\ res.readable = <<"kB", ExactQuot(IntOf(2046), 1)>>

\* C9: for a non-negative n, ByteSize(n).bytes is n, kilobytes, megabytes,
\* gigabytes and petabytes are n / 1024, n / 1024^2, n / 1024^3 and
\* n / 1024^4 as the float quotient holds them (exactly, for n below 2^53),
\* and B, kB, MB, GB, PB equal the long-named attributes.
C9_DerivedUnits ==
    (op.name = "new" /\ NonNeg(op.arg)) =>
        LET n == op.arg
        IN  /\ a.bytes = n
            /\ a.B = a.bytes
            /\ a.kB = a.kilobytes /\ NearestDouble(a.kilobytes, n, 1)
            /\ a.MB = a.megabytes /\ NearestDouble(a.megabytes, n, 2)
            /\ a.GB = a.gigabytes /\ NearestDouble(a.gigabytes, n, 3)
            /\ a.PB = a.petabytes /\ NearestDouble(a.petabytes, n, 4)
            /\ (MagBits(n.mag) <= MantBits =>
                   /\ a.kilobytes = ExactQuot(n, 1)
                   /\ a.megabytes = ExactQuot(n, 2)
                   /\ a.gigabytes = ExactQuot(n, 3)
                   /\ a.petabytes = ExactQuot(n, 4))

C9_Witness ==
    /\ op.name = "new"
    /\ op.arg = IntOf(5000000)
    /\ a.bytes = IntOf(5000000)
    /\ a.MB = [neg |-> FALSE, mag |-> <<832, 786, 4>>, exp |-> 2]

\* r is |v| * 10^p rounded to the nearest integer
NearestDec(r, v, p) ==
    MagCmp(MagMulSmall(MagDiff(Shift(r, v.exp), MagMulSmall(v.mag, 10 ^ p)), 2),
           Shift(<<1>>, v.exp)) <= 0

\* C10: format renders the value of the readable pair rounded to the
\* requested number of decimals, one space, and the unit of the pair; str()
\* uses 2 decimals; ByteSize(5000000) renders as "4.77 MB".
C10_Format ==
    /\ op.name = "format" =>
           LET p == Value(op.arg)
               v == ToFloat(a.readable[2])
               r == RoundDec(v, p)
           IN  /\ NearestDec(r, v, p)
               /\ out = Render(v.neg, r, p) \o " " \o a.readable[1]
               /\ (p = 2 /\ a.int = IntOf(5000000) => out = "4.77 MB")
               /\ (p = 3 /\ a.int = IntOf(5000000) => out = "4.768 MB")
               /\ (p = 0 /\ a.int = IntOf(1536) => out = "2 kB")
               /\ (p = 1 /\ a.int = IntOf(1152) => out = "1.1 kB")
    /\ op.name = "str" =>
           /\ out = __format__(a, 2)
           /\ (a.int = IntOf(5000000) => out = "4.77 MB")
           /\ (a.int = IntOf(1023) => out = "1023.00 B")
           /\ (a.int = IntOf(1024) => out = "1.00 kB")
           /\ (a.int = IntOf(1152) => out = "1.12 kB")
           /\ (a.int = IntOf(-1) => out = "-0.00 PB")

C10_Witness ==
    /\ op.name = "str"
    /\ a.int = IntOf(5000000)
    /\ out = "4.77 MB"

Arithmetic == {"add", "sub", "mul", "radd", "rsub", "rmul"}

\* C11: Add, Subtract and Multiply, forward and reflected, return a new
\* ByteSize and leave both operands as they were: bytes, derived units and
\* readable pair of each operand are the same after the operation as before.
C11_OperandsUnchanged ==
    [][op'.name \in Arithmetic =>
          /\ a' = a
          /\ b' = b
          /\ IsByteSize(res')]_vars

C11_Witness ==
    /\ op.name = "add"
    /\ a = ByteSize(IntOf(1023))
    /\ b = ByteSize(IntOf(1))
    /\ IsByteSize(res)
    /\ res.bytes = IntOf(1024)

\* n >= 1024^k: n is positive and has more than k digits in base 1024
AtLeastKBPow(n, k) == ~n.neg /\ Len(n.mag) > k

\* None of B, kB, MB, GB qualifies and readable carries the last unit
FallsBackToPB(o) ==
    /\ \A i \in SmallUnits : ~Qualifies(o[_suffixes[i]])
    /\ o.readable = <<"PB", o.PB>>

\* C12 as stated: for a non-negative byte count, readable falls back to PB
\* exactly when bytes is 0 or bytes >= 1024^4 * 1024; every count from 1 up
\* to 1024^4 * 1024 is rendered in one of B, kB, MB, GB.
C12_FallbackFromKB5 ==
    \A o \in Objects :
        NonNeg(o.bytes) =>
            (FallsBackToPB(o) <=> (o.bytes = IntOf(0) \/ AtLeastKBPow(o.bytes, 5)))

\* C12 as amended: the fallback happens exactly when bytes is 0 or
\* bytes >= 1024^4; every count from 1 up to 1024^4 is rendered in one of
\* B, kB, MB, GB.
C12_FallbackFromKB4 ==
    \A o \in Objects :
        NonNeg(o.bytes) =>
            /\ FallsBackToPB(o) <=> (o.bytes = IntOf(0) \/ AtLeastKBPow(o.bytes, 4))
            /\ ~FallsBackToPB(o) => o.readable[1] \in {_suffixes[i] : i \in SmallUnits}

C12_Witness ==
    /\ op.name = "new"
    /\ op.arg = KBPow(4)
    /\ FallsBackToPB(a)
    /\ a.readable = <<"PB", IntOf(1)>>

\* C13: for a plain int m and a ByteSize x, m - x is a ByteSize whose bytes
\* is m - x.bytes, the bytes of ByteSize(m) - x.
C13_ReflectedSubtraction ==
    op.name = "rsub" =>
        /\ IsByteSize(res)
        /\ res.bytes = IntSub(b.int, a.bytes)
        /\ res.bytes = __sub__(ByteSize(b.int), a).bytes

=============================================================================
